---- MODULE Spec2Model ----
(***************************************************************************)
(* Access-control resolution and master/version lifecycle of the bulletin  *)
(* builder API (CIAT-DAPA/acb_webapi).  Storage is the set of MongoDB      *)
(* collections the services read and write; every action is one HTTP       *)
(* handler, taken as a whole.                                              *)
(***************************************************************************)
EXTENDS Integers, Sequences, FiniteSets, TLC

\* ---------------------------------------------------------------- bounds
\* Number of master documents that may be stored.
MaxMasters == 2
\* Number of version documents that may be stored (also the id space of
\* version references carried in payloads).
MaxVersions == 2
\* Number of successful membership changes (add / remove / update-role).
MaxGroupOps == 2

\* ------------------------------------------------------------- constants
\* Python's None for a nullable reference (ids start at 1).
None == 0

ACTION_CREATE == "c"
ACTION_READ == "r"
ACTION_UPDATE == "u"
ACTION_DELETE == "d"
MODULE_ACCESS_CONTROL == "access_control"
MODULE_BULLETINS_COMPOSER == "bulletins_composer"
MODULE_TEMPLATE_MANAGEMENT == "template_management"
GLOBAL_ADMIN_ROLE_NAMES == {"superadmin"}
\* module=None: the optional module argument of BaseService.create / update.
NoModule == "None"

\* Users known to the identity provider.
Actors == {"u1", "u2", "u3"}
\* log.updater_user_id of a document that was never updated.
NoUser == "nobody"
\* Requests of createVersion that may be in flight at once.
Callers == {"c1", "c2"}
\* Stored Group documents, and one well-formed group id with no document.
Groups == {"g1", "g2"}
AbsentGroup == "gx"
GroupIds == Groups \cup {AbsentGroup}

\* Stored Role documents: role_name and permissions (module -> action -> bool).
Roles ==
  [ r_super  |-> [role_name |-> "superadmin", permissions |-> << >>],
    r_admin  |-> [role_name |-> "admin", permissions |-> << >>],
    r_editor |-> [role_name |-> "editor",
                  permissions |->
                    [bulletins_composer |-> [c |-> TRUE, r |-> TRUE, u |-> TRUE],
                     template_management |-> [c |-> TRUE, r |-> TRUE, u |-> TRUE],
                     access_control |-> [c |-> TRUE, u |-> TRUE, d |-> FALSE]]] ]
RoleIds == DOMAIN Roles

MasterIds == 1..MaxMasters
\* createVersion stores at most MaxVersions versions, and each clone of a
\* master that has a current version stores one more.
VersionIds == 1..(MaxVersions + MaxMasters - 1)
\* A well-formed version id that no stored version has.
DanglingVersion == MaxVersions + MaxMasters
\* Version references a payload may carry.
PayloadVersionRefs == {None, DanglingVersion}

\* AccessConfig sub-documents a payload may carry.
AccessConfigs ==
  {[access_type |-> "public", allowed_groups |-> {}]} \cup
  {[access_type |-> "restricted", allowed_groups |-> gs] :
     gs \in {{"g1"}, {"g1", "g2"}, {"g1", AbsentGroup}}}

\* AccessConfig sub-documents an update payload may carry.
UpdateAccessConfigs ==
  {[access_type |-> "public", allowed_groups |-> {}],
   [access_type |-> "restricted", allowed_groups |-> {"g2"}]}

\* version_num values a version payload may carry (the handler overwrites them).
PayloadVersionNums == {7}

VARIABLES
  users_access,  \* Group.users_access: group id -> list of (user_id, role_id)
  masters,       \* BulletinsMaster collection: id -> document
  versions,      \* BulletinsVersion collection: id -> document
  groupOps,      \* membership changes made so far (bounds the exploration)
  last,          \* the last handler call and its response
  group_log,     \* Group.log.updater_user_id: group id -> last updater
  is_active,     \* User.is_active: user id -> flag
  calls          \* createVersion requests in flight: caller -> position and locals

vars == <<users_access, masters, versions, groupOps, last, group_log, is_active, calls>>

\* A get_current_user that does not look at is_active.
get_current_user_ignoring_is_active(actor) == TRUE

\* ------------------------------------------------------------ helpers
\* get_current_user: the token's user must be active (403 otherwise).
get_current_user(actor) == is_active[actor]

\* A caller with no request in flight.
\* Names are sequences of words.  NoName is the absent (or empty) name of a
\* clone request, NewName the name of a created master, ClonSuffix the default
\* suffix of a clone's name.
NoName == << >>
NewName == <<"bulletin">>
ClonSuffix == <<"(clon)">>
NameOverrides == {NoName, <<"copy">>}

NoVersionData == [bulletin_master_id |-> None, previous_version_id |-> None,
                  version_num |-> 0]
Idle == [pc |-> "idle", actor |-> NoUser, master |-> None, read |-> None,
         version_data |-> NoVersionData, vid |-> None]

Range(s) == {s[i] : i \in 1..Len(s)}

\* The elements of a finite set of integers in increasing order (a query's
\* natural order, by _id).
RECURSIVE SortedSeq(_)
SortedSeq(S) ==
  IF S = {} THEN << >>
  ELSE LET x == CHOOSE y \in S : \A z \in S : y <= z
       IN <<x>> \o SortedSeq(S \ {x})

\* dict.get(key, default) on a record used as a dict.
DictGet(d, key, default) == IF key \in DOMAIN d THEN d[key] ELSE default

\* Group.objects(users_access__user_id=user_id)
GroupsOfUser(user_id) ==
  {g \in Groups : \E i \in 1..Len(users_access[g]) : users_access[g][i].user_id = user_id}

get_user_groups(user_id) == GroupsOfUser(user_id)

\* The role ids a user holds in a group (one per users_access entry of the user).
RoleIdsIn(user_id, g) ==
  {users_access[g][i].role_id :
     i \in {j \in 1..Len(users_access[g]) : users_access[g][j].user_id = user_id}}

is_superadmin(user_id) ==
  \E g \in GroupsOfUser(user_id) :
    \E r \in RoleIdsIn(user_id, g) : Roles[r].role_name \in GLOBAL_ADMIN_ROLE_NAMES

\* next((ua for ua in group.users_access if ua.user_id == user_id), None):
\* whether it yields an entry, and the role of that (first) entry.
HasAccess(user_id, g) ==
  \E j \in 1..Len(users_access[g]) : users_access[g][j].user_id = user_id

FirstRole(user_id, g) ==
  LET idx == {j \in 1..Len(users_access[g]) : users_access[g][j].user_id = user_id}
  IN users_access[g][CHOOSE j \in idx : \A k \in idx : j <= k].role_id

\* role.permissions.get(module, {}).get(action, False)
\* A permission lookup that allows what the role does not mention.
RoleAllowsByDefault(role_id, module, action) ==
  DictGet(DictGet(Roles[role_id].permissions, module, << >>), action, TRUE)

RoleAllows(role_id, module, action) ==
  DictGet(DictGet(Roles[role_id].permissions, module, << >>), action, FALSE)

\* A user_has_permission that looks for the global-admin role in the target
\* group only.
user_has_permission_in_group_only(user_id, group_id, module, action) ==
  IF group_id \notin Groups THEN "raise"
  ELSE IF ~HasAccess(user_id, group_id) THEN "deny"
  ELSE IF \/ Roles[FirstRole(user_id, group_id)].role_name \in GLOBAL_ADMIN_ROLE_NAMES
          \/ RoleAllows(FirstRole(user_id, group_id), module, action)
       THEN "allow" ELSE "deny"

\* user_has_permission: "allow", "deny", or "raise" when Group.objects.get
\* finds no document for group_id (DoesNotExist propagates to the caller).
user_has_permission(user_id, group_id, module, action) ==
  IF \E g \in GroupsOfUser(user_id) :
       \E i \in 1..Len(users_access[g]) :
         /\ users_access[g][i].user_id = user_id
         /\ Roles[users_access[g][i].role_id].role_name \in GLOBAL_ADMIN_ROLE_NAMES
  THEN "allow"
  ELSE IF group_id \notin Groups THEN "raise"
  ELSE IF ~HasAccess(user_id, group_id) THEN "deny"
  ELSE IF RoleAllows(FirstRole(user_id, group_id), module, action)
       THEN "allow" ELSE "deny"

\* A group-admin test that accepts the 'admin' role of any group.
user_is_admin_of_some_group(user_id, group_id) ==
  \E g \in Groups : \E r \in RoleIdsIn(user_id, g) : Roles[r].role_name = "admin"

user_is_group_admin(user_id, group_id) ==
  /\ group_id \in Groups
  /\ \E r \in RoleIdsIn(user_id, group_id) : Roles[r].role_name = "admin"

\* ------------------------------------------------------ visibility
\* self.model.objects(**filters): filter is None (no filter) or {"id": m}.
Matching(filter) == {m \in DOMAIN masters : filter = None \/ m = filter}

get_all(filter) == SortedSeq(Matching(filter))

\* A resolver that drops the group filter of the restricted query.
get_accessible_resources_any_group(user_id, filter) ==
  IF is_superadmin(user_id) THEN get_all(filter)
  ELSE LET public == {m \in Matching(filter) :
                        masters[m].access_config.access_type = "public"}
           restricted == {m \in Matching(filter) :
                            masters[m].access_config.access_type = "restricted"}
       IN SortedSeq(public) \o SortedSeq(restricted)

\* A resolver that asks for membership in every allowed group.
get_accessible_resources_every_group(user_id, filter) ==
  IF is_superadmin(user_id) THEN get_all(filter)
  ELSE LET user_groups == get_user_groups(user_id)
           public == {m \in Matching(filter) :
                        masters[m].access_config.access_type = "public"}
           restricted == {m \in Matching(filter) :
                            /\ masters[m].access_config.access_type = "restricted"
                            /\ masters[m].access_config.allowed_groups
                                 \subseteq user_groups}
       IN SortedSeq(public) \o SortedSeq(restricted)

get_accessible_resources(user_id, filter) ==
  IF is_superadmin(user_id) THEN get_all(filter)
  ELSE LET user_groups == get_user_groups(user_id)
           public == {m \in Matching(filter) :
                        masters[m].access_config.access_type = "public"}
           restricted == {m \in Matching(filter) :
                            /\ masters[m].access_config.access_type = "restricted"
                            /\ masters[m].access_config.allowed_groups
                                 \cap user_groups # {}}
       IN SortedSeq(public) \o SortedSeq(restricted)

\* ------------------------------------------------------ write gating
\* The loop "for group_id in allowed_groups: if not user_has_permission(...)":
\* the statuses the handler can end with.  The first group that is not allowed
\* decides (403 when it denies, 500 when the lookup raises); allowed_groups is
\* a list whose order the model does not fix, so any such group may be first.
\* A gate that is satisfied by permission in any one of the groups.
CheckAnyGroup(user_id, allowed_groups, module, action) ==
  IF \/ allowed_groups = {}
     \/ \E g \in allowed_groups :
          user_has_permission(user_id, g, module, action) = "allow"
  THEN {"ok"} ELSE {"forbidden"}

CheckAllGroups(user_id, allowed_groups, module, action) ==
  LET bad == {g \in allowed_groups :
                user_has_permission(user_id, g, module, action) # "allow"}
  IN IF bad = {} THEN {"ok"}
     ELSE {IF user_has_permission(user_id, g, module, action) = "deny"
           THEN "forbidden" ELSE "internal_error" : g \in bad}

\* BaseService.create / update: the gate applied when user_id and module are
\* given and the model has an access_config.
WriteGate(user_id, access_config, module, action) ==
  IF access_config.access_type # "public"
  THEN CheckAllGroups(user_id, access_config.allowed_groups, module, action)
  ELSE {"ok"}

\* A save that also renumbers the stored documents of the same master.
save_renumbering(collection, id, obj_data) ==
  [k \in DOMAIN collection |->
     IF /\ "version_num" \in DOMAIN obj_data
        /\ collection[k].bulletin_master_id = obj_data.bulletin_master_id
     THEN [collection[k] EXCEPT !.version_num = obj_data.version_num]
     ELSE collection[k]] @@ (id :> obj_data)

\* db_obj.save() of a new document: the collection gains one entry.
save(collection, id, obj_data) == collection @@ (id :> obj_data)

NewId(used, space) == CHOOSE i \in space \ used : \A j \in space \ used : i <= j

\* ------------------------------------------------------ handlers
\* POST /bulletins/ : BulletinsMasterService.create(bulletin, user_id, module)
\* LogCreate(creator_user_id=user_id): of the audit log the creator is kept;
\* BaseService.update conserves it.
LogCreate(user_id) == [creator_user_id |-> user_id]

\* POST /bulletins : the payload's bulletin_name is NewName.
create_bulletin(actor, cfg) ==
  /\ get_current_user(actor)
  /\ Cardinality(DOMAIN masters) < MaxMasters
  /\ \E st \in WriteGate(actor, cfg, MODULE_BULLETINS_COMPOSER, ACTION_CREATE) :
       LET id == NewId(DOMAIN masters, MasterIds) IN
       /\ masters' = IF st = "ok"
                     THEN save(masters, id, [bulletin_name |-> NewName,
                                             access_config |-> cfg,
                                             current_version_id |-> None,
                                             log |-> LogCreate(actor)])
                     ELSE masters
       /\ last' = [op |-> "create_bulletin", actor |-> actor, status |-> st,
                   arg |-> cfg, out |-> IF st = "ok" THEN id ELSE None]
  /\ UNCHANGED <<users_access, versions, groupOps, group_log, is_active, calls>>

\* Payloads of PUT /bulletins/{id}: the fields set (exclude_unset drops the rest).
UpdatePayloads ==
  {[field |-> "current_version_id", value |-> v] : v \in PayloadVersionRefs} \cup
  {[field |-> "access_config", value |-> cfg] : cfg \in UpdateAccessConfigs}

\* The update payloads that write current_version_id only.
PointerPayloads == {p \in UpdatePayloads : p.field = "current_version_id"}

\* db_obj.modify(**update_data)
Modify(doc, payload) ==
  IF payload.field = "current_version_id"
  THEN [doc EXCEPT !.current_version_id = payload.value]
  ELSE [doc EXCEPT !.access_config = payload.value]

\* An id string that is not a canonical ObjectId, and ObjectId.is_valid.
MalformedId == -1

is_valid(oid) == oid # MalformedId

\* An update whose gate reads no stored access_config.
UpdateStatusUngated(id, user_id, module) ==
  IF id \notin DOMAIN masters THEN {"internal_error"} ELSE {"ok"}

\* BaseService.update(id, obj_in, user_id, module): the statuses it can end with.
\* A malformed id is answered with 400 before the lookup.
\* objects.get(id=id) is outside the try block: a missing document raises
\* DoesNotExist out of the handler.  The gate uses the stored access_config.
UpdateStatus(id, user_id, module) ==
  IF ~is_valid(id) THEN {"bad_request"}
  ELSE IF id \notin DOMAIN masters THEN {"internal_error"}
  ELSE IF module # NoModule
       THEN WriteGate(user_id, masters[id].access_config, module, ACTION_UPDATE)
       ELSE {"ok"}

\* An update that authorizes against the access_config of the payload when
\* the payload carries one.
update_bulletin_gating_payload(actor, id, payload) ==
  /\ get_current_user(actor)
  /\ \E st \in IF id \in DOMAIN masters /\ payload.field = "access_config"
                THEN WriteGate(actor, payload.value, MODULE_BULLETINS_COMPOSER,
                               ACTION_UPDATE)
                ELSE UpdateStatus(id, actor, MODULE_BULLETINS_COMPOSER) :
       /\ masters' = IF st = "ok"
                     THEN [masters EXCEPT ![id] = Modify(masters[id], payload)]
                     ELSE masters
       /\ last' = [op |-> "update_bulletin", actor |-> actor, status |-> st,
                   arg |-> id, out |-> None]
  /\ UNCHANGED <<users_access, versions, groupOps, group_log, is_active, calls>>

\* PUT /bulletins/{bulletin_id}
update_bulletin(actor, id, payload) ==
  /\ get_current_user(actor)
  /\ \E st \in UpdateStatus(id, actor, MODULE_BULLETINS_COMPOSER) :
       /\ masters' = IF st = "ok"
                     THEN [masters EXCEPT ![id] = Modify(masters[id], payload)]
                     ELSE masters
       /\ last' = [op |-> "update_bulletin", actor |-> actor, status |-> st,
                   arg |-> id, out |-> None]
  /\ UNCHANGED <<users_access, versions, groupOps, group_log, is_active, calls>>

\* Payloads of POST /bulletins/versions (BulletinsVersionCreate).
VersionPayloads ==
  [bulletin_master_id : MasterIds,
   previous_version_id : PayloadVersionRefs,
   version_num : PayloadVersionNums]

\* A version_data whose version_num is not incremented.
VersionData_keeping_num(payload, previous_version_id) ==
  IF previous_version_id # None
  THEN [payload EXCEPT !.previous_version_id = previous_version_id,
                       !.version_num = versions[previous_version_id].version_num]
  ELSE [payload EXCEPT !.version_num = 1]

\* version_data after lines 302-309: previous_version_id and version_num are
\* taken from the master's current version when it has one; otherwise only
\* version_num is set.
VersionData(payload, previous_version_id) ==
  IF previous_version_id # None
  THEN [payload EXCEPT !.previous_version_id = previous_version_id,
                       !.version_num = versions[previous_version_id].version_num + 1]
  ELSE [payload EXCEPT !.version_num = 1]

\* A createVersion that treats a current_version_id whose version is missing
\* as no current version.
create_bulletin_version_falling_back(actor, payload) ==
  LET mid == payload.bulletin_master_id
      bulletins == get_accessible_resources(actor, mid)
  IN
  /\ get_current_user(actor)
  /\ Cardinality(DOMAIN versions) < MaxVersions
  /\ IF bulletins = << >>
     THEN /\ last' = [op |-> "create_bulletin_version", actor |-> actor,
                      status |-> "not_found", arg |-> payload, out |-> None]
          /\ UNCHANGED <<masters, versions>>
     ELSE LET stored == masters[bulletins[1]].current_version_id
              previous_version_id == IF stored \in DOMAIN versions
                                     THEN stored ELSE None
              vid == NewId(DOMAIN versions, VersionIds)
              version_obj == VersionData(payload, previous_version_id)
          IN
          /\ versions' = save(versions, vid, version_obj)
          /\ masters' = [masters EXCEPT ![mid] =
                           Modify(masters[mid], [field |-> "current_version_id",
                                                 value |-> vid])]
          /\ last' = [op |-> "create_bulletin_version", actor |-> actor,
                      status |-> "ok", arg |-> payload, out |-> vid]
  /\ UNCHANGED <<users_access, groupOps, group_log, is_active, calls>>

\* POST /bulletins/versions
create_bulletin_version(actor, payload) ==
  LET mid == payload.bulletin_master_id
      bulletins == get_accessible_resources(actor, mid)
  IN
  /\ get_current_user(actor)
  /\ Cardinality(DOMAIN versions) < MaxVersions
  /\ IF bulletins = << >>
     THEN /\ last' = [op |-> "create_bulletin_version", actor |-> actor,
                      status |-> "not_found", arg |-> payload, out |-> None]
          /\ UNCHANGED <<masters, versions>>
     ELSE LET previous_version_id == masters[bulletins[1]].current_version_id IN
          IF previous_version_id # None /\ previous_version_id \notin DOMAIN versions
          THEN \* bulletins_version_service.get_by_id raises 404
               /\ last' = [op |-> "create_bulletin_version", actor |-> actor,
                           status |-> "not_found", arg |-> payload, out |-> None]
               /\ UNCHANGED <<masters, versions>>
          ELSE LET vid == NewId(DOMAIN versions, VersionIds)
                   version_obj == VersionData(payload, previous_version_id)
               IN
               /\ versions' = save(versions, vid, version_obj)
               \* bulletins_master_service.update(id, update_data, user_id): no module
               /\ masters' = [masters EXCEPT ![mid] =
                                Modify(masters[mid], [field |-> "current_version_id",
                                                      value |-> vid])]
               /\ last' = [op |-> "create_bulletin_version", actor |-> actor,
                           status |-> "ok", arg |-> payload, out |-> vid]
  /\ UNCHANGED <<users_access, groupOps, group_log, is_active, calls>>

\* A clone_version that leaves previous_version_id as it was in the source.
clone_version_keeping_previous(version, new_bulletin_master_id) ==
  [version EXCEPT !.bulletin_master_id = new_bulletin_master_id]

\* BulletinsVersionService.clone_version: the copy stored for the new master.
clone_version(version, new_bulletin_master_id) ==
  [version EXCEPT !.bulletin_master_id = new_bulletin_master_id,
                  !.previous_version_id = None]

\* clone_master_with_version(master, user_id): a copy of the master without
\* version, then a copy of its current version, then the new master's pointer.
\* status is the answer when the whole sequence succeeds.
clone_master_with_version(actor, id, bulletin_name) ==
  LET new_id == NewId(DOMAIN masters, MasterIds)
      \* bulletin_name or master_data["bulletin_name"] + " (clon)"
      new_master == [masters[id] EXCEPT
                       !.bulletin_name = IF bulletin_name # NoName
                                         THEN bulletin_name ELSE @ \o ClonSuffix,
                       !.current_version_id = None,
                       !.log = LogCreate(actor)]
      current_version_id == masters[id].current_version_id
      vid == NewId(DOMAIN versions, VersionIds)
  IN
  IF current_version_id = None
  THEN /\ masters' = save(masters, new_id, new_master)
       /\ last' = [op |-> "clone_template", actor |-> actor, status |-> "ok",
                   arg |-> <<id, bulletin_name>>, out |-> new_id]
       /\ UNCHANGED versions
  ELSE IF current_version_id \notin DOMAIN versions
  THEN \* version_service.get_by_id raises 404 after the master was created
       /\ masters' = save(masters, new_id, new_master)
       /\ last' = [op |-> "clone_template", actor |-> actor, status |-> "not_found",
                   arg |-> <<id, bulletin_name>>, out |-> new_id]
       /\ UNCHANGED versions
  ELSE /\ versions' = save(versions, vid,
                            clone_version(versions[current_version_id], new_id))
       /\ masters' = save(masters, new_id,
                           Modify(new_master, [field |-> "current_version_id",
                                               value |-> vid]))
       /\ last' = [op |-> "clone_template", actor |-> actor, status |-> "ok",
                   arg |-> <<id, bulletin_name>>, out |-> new_id]

\* POST /{template_id}/clone : the master must be accessible, the actor must
\* hold create permission in every allowed group, then the master is cloned.
\* Masters and versions are the one master / version pair of this model.
clone_template(actor, id, template_name) ==
  LET found == get_accessible_resources(actor, id) IN
  /\ get_current_user(actor)
  /\ Cardinality(DOMAIN masters) < MaxMasters
  /\ IF found = << >>
     THEN /\ last' = [op |-> "clone_template", actor |-> actor, status |-> "not_found",
                      arg |-> <<id, template_name>>, out |-> None]
          /\ UNCHANGED <<masters, versions>>
     ELSE \E st \in CheckAllGroups(actor, masters[id].access_config.allowed_groups,
                                   MODULE_TEMPLATE_MANAGEMENT, ACTION_CREATE) :
            IF st # "ok"
            THEN /\ last' = [op |-> "clone_template", actor |-> actor, status |-> st,
                             arg |-> <<id, template_name>>, out |-> None]
                 /\ UNCHANGED <<masters, versions>>
            ELSE clone_master_with_version(actor, id, template_name)
  /\ UNCHANGED <<users_access, groupOps, group_log, is_active, calls>>

\* ------------------------------------------------------ reads
\* GET /bulletins/
get_all_bulletins(actor) ==
  /\ get_current_user(actor)
  /\ last' = [op |-> "get_all_bulletins", actor |-> actor, status |-> "ok",
              arg |-> None, out |-> get_accessible_resources(actor, None)]
  /\ UNCHANGED <<users_access, masters, versions, groupOps, group_log, is_active, calls>>

\* GET /bulletins/{bulletin_id}.  get_accessible_resources does not validate
\* the id: the query raises on a malformed one and "except Exception" answers 500.
get_bulletin_by_id(actor, bulletin_id) ==
  LET bulletins == get_accessible_resources(actor, bulletin_id) IN
  /\ get_current_user(actor)
  /\ last' = IF ~is_valid(bulletin_id)
             THEN [op |-> "get_bulletin_by_id", actor |-> actor,
                   status |-> "internal_error", arg |-> bulletin_id, out |-> << >>]
             ELSE IF bulletins = << >>
             THEN [op |-> "get_bulletin_by_id", actor |-> actor,
                   status |-> "not_found", arg |-> bulletin_id, out |-> << >>]
             ELSE [op |-> "get_bulletin_by_id", actor |-> actor,
                   status |-> "ok", arg |-> bulletin_id, out |-> <<bulletins[1]>>]
  /\ UNCHANGED <<users_access, masters, versions, groupOps, group_log, is_active, calls>>

\* GET /bulletins/slug_name : name_machine of every master from get_all()
\* (every master is taken to carry a name_machine).
get_all_bulletin_slug_names(actor) ==
  /\ get_current_user(actor)
  /\ last' = [op |-> "get_all_bulletin_slug_names", actor |-> actor,
              status |-> "ok", arg |-> None, out |-> get_all(None)]
  /\ UNCHANGED <<users_access, masters, versions, groupOps, group_log, is_active, calls>>

\* BaseService.get_by_id: the status it ends with.  objects.get(id=id) runs
\* without an is_valid check; DoesNotExist is answered 404 and any other
\* exception, the ValidationError of a malformed id included, 500.
get_by_id(collection, id) ==
  IF ~is_valid(id) THEN "internal_error"
  ELSE IF id \in DOMAIN collection THEN "ok" ELSE "not_found"

\* GET /bulletins/version/{version_id} : bulletins_version_service.get_by_id
get_version_by_id(actor, version_id) ==
  /\ get_current_user(actor)
  /\ last' = [op |-> "get_version_by_id", actor |-> actor,
              status |-> get_by_id(versions, version_id), arg |-> version_id,
              out |-> IF get_by_id(versions, version_id) = "ok"
                      THEN <<version_id>> ELSE << >>]
  /\ UNCHANGED <<users_access, masters, versions, groupOps, group_log, is_active, calls>>

\* BulletinsMasterService.get_current_version_id: 400 for a malformed id,
\* 404 for a missing master, the stored pointer otherwise.
get_current_version_id(bulletin_master_id) ==
  IF ~is_valid(bulletin_master_id) THEN "bad_request"
  ELSE IF bulletin_master_id \notin DOMAIN masters THEN "not_found"
  ELSE "ok"

\* GET /bulletins/{bulletin_id}/current-version : the access lookup runs
\* first (500 on a malformed id, 404 when nothing is visible), then
\* get_current_version_id, then the version is dereferenced (500 when the
\* pointer dangles).
GetCurrentVersionStatus(actor, bulletin_id) ==
  IF ~is_valid(bulletin_id) THEN "internal_error"
  ELSE IF get_accessible_resources(actor, bulletin_id) = << >> THEN "not_found"
  ELSE IF get_current_version_id(bulletin_id) # "ok"
       THEN get_current_version_id(bulletin_id)
  ELSE IF masters[bulletin_id].current_version_id = None THEN "not_found"
  ELSE IF masters[bulletin_id].current_version_id \notin DOMAIN versions
       THEN "internal_error"
  ELSE "ok"

get_current_version(actor, bulletin_id) ==
  /\ get_current_user(actor)
  /\ last' = [op |-> "get_current_version", actor |-> actor,
              status |-> GetCurrentVersionStatus(actor, bulletin_id),
              arg |-> bulletin_id,
              out |-> IF GetCurrentVersionStatus(actor, bulletin_id) = "ok"
                      THEN <<masters[bulletin_id].current_version_id>>
                      ELSE << >>]
  /\ UNCHANGED <<users_access, masters, versions, groupOps, group_log, is_active, calls>>

\* ------------------------------------------------------ group administration
\* The authorization expression of add / remove / update-role: the statuses
\* it lets through.  "or" short-circuits, so user_has_permission runs only for
\* a non-superadmin and its DoesNotExist escapes as a 500.
GroupAdminGate(updater, group_id, action) ==
  IF is_superadmin(updater) THEN "ok"
  ELSE IF user_has_permission(updater, group_id, MODULE_ACCESS_CONTROL, action) = "raise"
       THEN "internal_error"
  ELSE IF user_has_permission(updater, group_id, MODULE_ACCESS_CONTROL, action) = "allow"
       THEN "ok"
  ELSE IF user_is_group_admin(updater, group_id) THEN "ok"
  ELSE "forbidden"

\* An add_user_to_group that lets every authorized updater assign every role.
AddStatusAnyRole(updater, group_id, user_id, role_id) ==
  IF GroupAdminGate(updater, group_id, ACTION_CREATE) # "ok"
  THEN GroupAdminGate(updater, group_id, ACTION_CREATE)
  ELSE IF group_id \notin Groups THEN "not_found"
  ELSE IF HasAccess(user_id, group_id) THEN "bad_request"
  ELSE "ok"

\* GroupsService.add_user_to_group: the status it ends with.
AddStatus(updater, group_id, user_id, role_id) ==
  IF GroupAdminGate(updater, group_id, ACTION_CREATE) # "ok"
  THEN GroupAdminGate(updater, group_id, ACTION_CREATE)
  ELSE IF group_id \notin Groups THEN "not_found"
  ELSE IF Roles[role_id].role_name \in {"superadmin"} /\ ~is_superadmin(updater)
       THEN "forbidden"
  ELSE IF HasAccess(user_id, group_id) THEN "bad_request"
  ELSE "ok"

\* POST /groups/{group_id}/add-user
add_user_to_group(updater, group_id, user_id, role_id) ==
  /\ get_current_user(updater)
  /\ groupOps < MaxGroupOps
  /\ \E st \in {AddStatus(updater, group_id, user_id, role_id)} :
       /\ group_log' = IF st = "ok"
                       THEN [group_log EXCEPT ![group_id] = updater] ELSE group_log
       /\ users_access' =
            IF st = "ok"
            THEN [users_access EXCEPT ![group_id] =
                    Append(@, [user_id |-> user_id, role_id |-> role_id])]
            ELSE users_access
       /\ groupOps' = IF st = "ok" THEN groupOps + 1 ELSE groupOps
       /\ last' = [op |-> "add_user_to_group", actor |-> updater, status |-> st,
                   arg |-> <<group_id, user_id, role_id>>, out |-> None]
  /\ UNCHANGED <<masters, versions, is_active, calls>>

\* A remove_user_from_group that does not compare the member counts.
RemoveStatusUnchecked(updater, group_id, user_id) ==
  IF GroupAdminGate(updater, group_id, ACTION_DELETE) # "ok"
  THEN GroupAdminGate(updater, group_id, ACTION_DELETE)
  ELSE IF group_id \notin Groups THEN "internal_error"
  ELSE "ok"

\* GroupsService.remove_user_from_group: Group.objects.get is not guarded, so
\* a missing group raises DoesNotExist out of the handler.
RemoveStatus(updater, group_id, user_id) ==
  IF GroupAdminGate(updater, group_id, ACTION_DELETE) # "ok"
  THEN GroupAdminGate(updater, group_id, ACTION_DELETE)
  ELSE IF group_id \notin Groups THEN "internal_error"
  ELSE IF ~HasAccess(user_id, group_id) THEN "not_found"
  ELSE "ok"

\* POST /groups/{group_id}/remove-user
remove_user_from_group(updater, group_id, user_id) ==
  /\ get_current_user(updater)
  /\ groupOps < MaxGroupOps
  /\ \E st \in {RemoveStatus(updater, group_id, user_id)} :
       /\ group_log' = IF st = "ok"
                       THEN [group_log EXCEPT ![group_id] = updater] ELSE group_log
       /\ users_access' =
            IF st = "ok"
            THEN [users_access EXCEPT ![group_id] =
                    SelectSeq(@, LAMBDA ua : ua.user_id # user_id)]
            ELSE users_access
       /\ groupOps' = IF st = "ok" THEN groupOps + 1 ELSE groupOps
       /\ last' = [op |-> "remove_user_from_group", actor |-> updater, status |-> st,
                   arg |-> <<group_id, user_id>>, out |-> None]
  /\ UNCHANGED <<masters, versions, is_active, calls>>

\* GroupsService.update_user_role_in_group: the status it ends with.
UpdateRoleStatus(updater, group_id, user_id, new_role_id) ==
  IF GroupAdminGate(updater, group_id, ACTION_UPDATE) # "ok"
  THEN GroupAdminGate(updater, group_id, ACTION_UPDATE)
  ELSE IF group_id \notin Groups THEN "not_found"
  ELSE IF Roles[new_role_id].role_name = "superadmin" /\ ~is_superadmin(updater)
       THEN "forbidden"
  ELSE IF ~HasAccess(user_id, group_id) THEN "not_found"
  ELSE "ok"

\* POST /groups/{group_id}/update-user-role
update_user_role_in_group(updater, group_id, user_id, new_role_id) ==
  /\ get_current_user(updater)
  /\ groupOps < MaxGroupOps
  /\ \E st \in {UpdateRoleStatus(updater, group_id, user_id, new_role_id)} :
       /\ group_log' = IF st = "ok"
                       THEN [group_log EXCEPT ![group_id] = updater] ELSE group_log
       /\ users_access' =
            IF st = "ok"
            THEN [users_access EXCEPT ![group_id] =
                    [i \in 1..Len(@) |->
                       IF @[i].user_id = user_id
                       THEN [@[i] EXCEPT !.role_id = new_role_id] ELSE @[i]]]
            ELSE users_access
       /\ groupOps' = IF st = "ok" THEN groupOps + 1 ELSE groupOps
       /\ last' = [op |-> "update_user_role_in_group", actor |-> updater, status |-> st,
                   arg |-> <<group_id, user_id, new_role_id>>, out |-> None]
  /\ UNCHANGED <<masters, versions, is_active, calls>>

Init ==
  /\ users_access = [g \in Groups |->
                       IF g = "g1"
                       THEN << [user_id |-> "u1", role_id |-> "r_super"],
                               [user_id |-> "u2", role_id |-> "r_editor"] >>
                       ELSE << [user_id |-> "u3", role_id |-> "r_admin"] >>]
  /\ masters = << >>
  /\ versions = << >>
  /\ groupOps = 0
  /\ last = [op |-> "init", actor |-> "u1", status |-> "ok", arg |-> None, out |-> None]
  /\ group_log = [g \in Groups |-> NoUser]
  /\ is_active = [u \in Actors |-> TRUE]
  /\ calls = [c \in Callers |-> Idle]

\* The master / version lifecycle and the reads, under the stored memberships.
\* Masters are created by u1, who may create with every access_config.
Next ==
  \/ \E cfg \in AccessConfigs : create_bulletin("u1", cfg)
  \/ \E a \in Actors, id \in MasterIds, p \in UpdatePayloads : update_bulletin(a, id, p)
  \/ \E a \in Actors, p \in VersionPayloads : create_bulletin_version(a, p)
  \/ \E a \in Actors : get_all_bulletins(a)
  \/ \E a \in Actors, id \in MasterIds : get_bulletin_by_id(a, id)
  \/ \E a \in Actors : get_all_bulletin_slug_names(a)
  \/ \E a \in Actors, v \in VersionIds : get_version_by_id(a, v)

Spec == Init /\ [][Next]_vars

\* The writes of the lifecycle with cloning: masters created by u1, updated,
\* given versions and cloned by every actor.
NextClone ==
  \/ \E cfg \in AccessConfigs : create_bulletin("u1", cfg)
  \/ \E a \in Actors, id \in MasterIds, p \in UpdatePayloads : update_bulletin(a, id, p)
  \/ \E a \in Actors, p \in VersionPayloads : create_bulletin_version(a, p)
  \/ \E a \in Actors, id \in MasterIds, n \in NameOverrides : clone_template(a, id, n)

SpecClone == Init /\ [][NextClone]_vars

\* A call of user_has_permission, as the gated handlers make it.
check_permission(user_id, group_id, module, action) ==
  /\ get_current_user(user_id)
  /\ last' = [op |-> "user_has_permission", actor |-> user_id,
              status |-> user_has_permission(user_id, group_id, module, action),
              arg |-> <<group_id, module, action>>, out |-> None]
  /\ UNCHANGED <<users_access, masters, versions, groupOps, group_log, is_active, calls>>

Modules == {MODULE_ACCESS_CONTROL, MODULE_BULLETINS_COMPOSER}
Actions == {ACTION_CREATE, ACTION_READ, ACTION_UPDATE, ACTION_DELETE}

\* Group administration and the permission check, whatever the memberships.
NextAccess ==
  \/ \E a \in Actors, g \in GroupIds, u \in Actors, r \in RoleIds :
       add_user_to_group(a, g, u, r)
  \/ \E a \in Actors, g \in GroupIds, u \in Actors : remove_user_from_group(a, g, u)
  \/ \E a \in Actors, g \in GroupIds, u \in Actors, r \in RoleIds :
       update_user_role_in_group(a, g, u, r)
  \/ \E a \in Actors, g \in GroupIds, m \in Modules, act \in Actions :
       check_permission(a, g, m, act)

SpecAccess == Init /\ [][NextAccess]_vars

\* Memberships the group operations can leave behind: u1 stays the superadmin
\* of g1; u2 and u3 hold any role, or none, in each group.
NoRole == "none"
MemberChoices == [Groups -> [{"u2", "u3"} -> RoleIds \cup {NoRole}]]

Entries(g, choice) ==
  (IF g = "g1" THEN << [user_id |-> "u1", role_id |-> "r_super"] >> ELSE << >>)
  \o (IF choice["u2"] # NoRole
      THEN << [user_id |-> "u2", role_id |-> choice["u2"]] >> ELSE << >>)
  \o (IF choice["u3"] # NoRole
      THEN << [user_id |-> "u3", role_id |-> choice["u3"]] >> ELSE << >>)

InitMembers ==
  /\ \E cs \in MemberChoices : users_access = [g \in Groups |-> Entries(g, cs[g])]
  /\ masters = << >>
  /\ versions = << >>
  /\ groupOps = 0
  /\ last = [op |-> "init", actor |-> "u1", status |-> "ok", arg |-> None, out |-> None]
  /\ group_log = [g \in Groups |-> NoUser]
  /\ is_active = [u \in Actors |-> TRUE]
  /\ calls = [c \in Callers |-> Idle]

\* Creation and listing of masters, whatever the memberships.
NextMembers ==
  \/ \E a \in Actors, cfg \in AccessConfigs : create_bulletin(a, cfg)
  \/ \E a \in Actors : get_all_bulletins(a)

SpecMembers == InitMembers /\ [][NextMembers]_vars

\* ---------------------------------------------------------------------------
\* Activation of users, and requests by inactive users.

\* UsersService.activate_user / deactivate_user: self.update(user_id,
\* UsersUpdate(is_active=...), updater_user_id); every authenticated active
\* user may call the two routes.
set_active(op, updater, user_id, value) ==
  /\ get_current_user(updater)
  /\ is_active' = [is_active EXCEPT ![user_id] = value]
  /\ last' = [op |-> op, actor |-> updater, status |-> "ok",
              arg |-> user_id, out |-> None]
  /\ UNCHANGED <<users_access, masters, versions, groupOps, group_log, calls>>

\* PUT /users/{user_id}/activate
activate_user(updater, user_id) == set_active("activate_user", updater, user_id, TRUE)

\* PUT /users/{user_id}/deactivate
deactivate_user(updater, user_id) ==
  set_active("deactivate_user", updater, user_id, FALSE)

\* The routes of the model that start with get_current_user.
AuthenticatedRoutes ==
  {"create_bulletin", "update_bulletin", "create_bulletin_version",
   "clone_template", "get_all_bulletins", "get_bulletin_by_id",
   "add_user_to_group", "remove_user_from_group", "update_user_role_in_group",
   "activate_user", "deactivate_user"}

\* A request whose get_current_user raises 403 'User is not active or not
\* authorized' (access_utils.py 206-207): the handler body does not run.
request_by_inactive_user(actor, op) ==
  /\ ~get_current_user(actor)
  /\ last' = [op |-> op, actor |-> actor, status |-> "forbidden",
              arg |-> None, out |-> None]
  /\ UNCHANGED <<users_access, masters, versions, groupOps, group_log, is_active,
                 calls>>

\* Requests of every resource kind (master, version, read, group) by u1 and
\* u2 while u2 is deactivated and activated again, by u1 or by u2 itself.
NextActive ==
  \/ \E a \in {"u1", "u2"} : activate_user(a, "u2")
  \/ \E a \in {"u1", "u2"} : deactivate_user(a, "u2")
  \/ \E a \in {"u1", "u2"}, op \in AuthenticatedRoutes : request_by_inactive_user(a, op)
  \/ \E a \in {"u1", "u2"}, cfg \in UpdateAccessConfigs : create_bulletin(a, cfg)
  \/ \E a \in {"u1", "u2"}, p \in VersionPayloads : create_bulletin_version(a, p)
  \/ \E a \in {"u1", "u2"}, id \in MasterIds : get_bulletin_by_id(a, id)
  \/ \E a \in {"u1", "u2"}, r \in RoleIds : add_user_to_group(a, "g2", "u2", r)
  \/ \E a \in {"u1", "u2"} : remove_user_from_group(a, "g2", "u2")

SpecActive == Init /\ [][NextActive]_vars

\* ---------------------------------------------------------------------------
\* POST /bulletins/versions as the three database accesses it is made of, so
\* that two calls can interleave.  calls[c] is the position of the call served
\* for caller c: the master it is about, the pointer it read, its version_data
\* and the id of the version it stored.

\* A call that has read the master's pointer and not yet written it back.
InFlight(mid) ==
  \E d \in Callers : calls[d].pc \in {"create", "update"} /\ calls[d].master = mid

\* Lines 296-309: authentication, the visibility check, the read of the
\* master's current_version_id and of the previous version's version_num.
create_bulletin_version_read(c, actor, payload) ==
  LET mid == payload.bulletin_master_id
      bulletins == get_accessible_resources(actor, mid)
  IN
  /\ get_current_user(actor)
  /\ calls[c].pc \in {"idle", "done"}
  /\ Cardinality(DOMAIN versions)
       + Cardinality({d \in Callers : calls[d].pc = "create"}) < MaxVersions
  /\ IF bulletins = << >>
     THEN /\ last' = [op |-> "create_bulletin_version", actor |-> actor,
                      status |-> "not_found", arg |-> payload, out |-> None]
          /\ calls' = [calls EXCEPT ![c] = Idle]
     ELSE LET previous_version_id == masters[bulletins[1]].current_version_id IN
          IF previous_version_id # None /\ previous_version_id \notin DOMAIN versions
          THEN /\ last' = [op |-> "create_bulletin_version", actor |-> actor,
                           status |-> "not_found", arg |-> payload, out |-> None]
               /\ calls' = [calls EXCEPT ![c] = Idle]
          ELSE /\ calls' = [calls EXCEPT ![c] =
                              [pc |-> "create", actor |-> actor, master |-> mid,
                               read |-> previous_version_id,
                               version_data |-> VersionData(payload, previous_version_id),
                               vid |-> None]]
               /\ UNCHANGED last
  /\ UNCHANGED <<users_access, masters, versions, groupOps, group_log, is_active>>

\* Line 310: bulletins_version_service.create(version_data, user_id).
create_bulletin_version_create(c) ==
  LET vid == NewId(DOMAIN versions, VersionIds) IN
  /\ calls[c].pc = "create"
  /\ versions' = save(versions, vid, calls[c].version_data)
  /\ calls' = [calls EXCEPT ![c].pc = "update", ![c].vid = vid]
  /\ UNCHANGED <<users_access, masters, groupOps, last, group_log, is_active>>

\* Lines 312-314: bulletins_master_service.update(master id, current_version_id
\* = the new version's id, user_id), without module, and the response.
create_bulletin_version_update(c) ==
  LET mid == calls[c].master IN
  /\ calls[c].pc = "update"
  /\ \E st \in UpdateStatus(mid, calls[c].actor, NoModule) :
       /\ masters' = IF st = "ok"
                     THEN [masters EXCEPT ![mid] =
                             Modify(masters[mid], [field |-> "current_version_id",
                                                   value |-> calls[c].vid])]
                     ELSE masters
       /\ last' = [op |-> "create_bulletin_version", actor |-> calls[c].actor,
                   status |-> st, arg |-> calls[c].version_data,
                   out |-> calls[c].vid]
  /\ calls' = [calls EXCEPT ![c].pc = "done"]
  /\ UNCHANGED <<users_access, versions, groupOps, group_log, is_active>>

\* The calls of POST /bulletins/versions interleaved freely, as the server
\* runs them: nothing in the handler or the services takes a lock.
NextRace ==
  \/ \E cfg \in AccessConfigs : create_bulletin("u1", cfg)
  \/ \E c \in Callers, a \in Actors, p \in VersionPayloads :
       create_bulletin_version_read(c, a, p)
  \/ \E c \in Callers : create_bulletin_version_create(c)
  \/ \E c \in Callers : create_bulletin_version_update(c)

SpecRace == Init /\ [][NextRace]_vars

\* The same calls when a per-master mutual exclusion covers the whole
\* read-pointer / insert-version / update-pointer sequence: a call starts on a
\* master only when no other call on that master is in flight.  Masters are
\* created and their pointer is updated (PUT /bulletins/{id}) by u1 in between;
\* versions are created by u1 and u2.
NextLocked ==
  \/ \E cfg \in AccessConfigs : create_bulletin("u1", cfg)
  \/ \E id \in MasterIds, p \in PointerPayloads : update_bulletin("u1", id, p)
  \/ \E c \in Callers, a \in {"u1", "u2"}, p \in VersionPayloads :
       /\ ~InFlight(p.bulletin_master_id)
       /\ create_bulletin_version_read(c, a, p)
  \/ \E c \in Callers : create_bulletin_version_create(c)
  \/ \E c \in Callers : create_bulletin_version_update(c)

SpecLocked == Init /\ [][NextLocked]_vars

\* ------------------------------------------------------ properties
\* The user has an entry, in some stored group, whose role is a global-admin role.
HoldsGlobalAdminRole(u) ==
  \E g \in Groups : \E ua \in Range(users_access[g]) :
    ua.user_id = u /\ Roles[ua.role_id].role_name \in GLOBAL_ADMIN_ROLE_NAMES

\* C1: a user holding a global-admin role in any group is allowed by
\* user_has_permission for every module, action and group id, including groups
\* the user is not a member of and group ids with no stored group.
C1_GlobalAdminAllowedEverywhere ==
  \A u \in Actors :
    HoldsGlobalAdminRole(u) =>
      \A g \in GroupIds, m \in Modules, act \in Actions :
        user_has_permission(u, g, m, act) = "allow"

\* A user promoted to superadmin in one group was just allowed on a group id
\* with no stored group, and a superadmin was allowed on a group they are not in.
C1_Witness ==
  /\ last.op = "user_has_permission"
  /\ last.actor # "u1"
  /\ HoldsGlobalAdminRole(last.actor)
  /\ last.arg[1] = AbsentGroup
  /\ last.status = "allow"
  /\ \E g \in Groups : ~HasAccess(last.actor, g)


\* The stored groups in which the user has an entry.
MemberGroups(u) ==
  {g \in Groups : \E ua \in Range(users_access[g]) : ua.user_id = u}

\* The user has, in stored group g, a role that grants action on module.
HoldsPermission(u, g, module, action) ==
  /\ g \in Groups
  /\ \E ua \in Range(users_access[g]) :
       ua.user_id = u /\ RoleAllows(ua.role_id, module, action)

\* The user is not a global admin and lacks the permission in some group of cfg.
LacksInSomeGroup(u, cfg, module, action) ==
  /\ cfg.access_type = "restricted"
  /\ ~HoldsGlobalAdminRole(u)
  /\ \E g \in cfg.allowed_groups : ~HoldsPermission(u, g, module, action)

\* C2: creating a restricted resource is denied, and nothing is persisted, for
\* a non-global-admin actor lacking create permission in some group of the
\* payload's allowed_groups (403 when every allowed group is stored).
C2_CreateNeedsEveryGroup ==
  [][ (/\ last'.op = "create_bulletin"
       /\ LacksInSomeGroup(last'.actor, last'.arg,
                           MODULE_BULLETINS_COMPOSER, ACTION_CREATE))
      => /\ last'.status # "ok"
         /\ masters' = masters
         /\ versions' = versions
         /\ (last'.arg.allowed_groups \subseteq Groups => last'.status = "forbidden")
    ]_vars

\* A create of a {g1, g2} resource was just refused to an actor who may create
\* in one of the two groups only.
C2_Witness ==
  /\ last.op = "create_bulletin"
  /\ last.arg.allowed_groups = {"g1", "g2"}
  /\ ~HoldsGlobalAdminRole(last.actor)
  /\ \E g \in last.arg.allowed_groups :
       HoldsPermission(last.actor, g, MODULE_BULLETINS_COMPOSER, ACTION_CREATE)
  /\ \E g \in last.arg.allowed_groups :
       ~HoldsPermission(last.actor, g, MODULE_BULLETINS_COMPOSER, ACTION_CREATE)
  /\ last.status = "forbidden"
  /\ masters = << >>

\* C3: createVersion on a restricted master is denied for a non-global-admin
\* actor lacking create permission in some group of the master's
\* allowed_groups; no version is stored and the master's pointer is unchanged.
C3_CreateVersionNeedsEveryGroup ==
  [][ (/\ last'.op = "create_bulletin_version"
       /\ last'.arg.bulletin_master_id \in DOMAIN masters
       /\ LacksInSomeGroup(last'.actor,
                           masters[last'.arg.bulletin_master_id].access_config,
                           MODULE_BULLETINS_COMPOSER, ACTION_CREATE))
      => /\ last'.status # "ok"
         /\ versions' = versions
         /\ masters' = masters
    ]_vars

\* C4: updating a restricted resource is denied, and the resource is left as
\* stored, for a non-global-admin actor lacking update permission in some
\* group of the stored allowed_groups (403 when every allowed group is stored).
C4_UpdateNeedsEveryStoredGroup ==
  [][ (/\ last'.op = "update_bulletin"
       /\ last'.arg \in DOMAIN masters
       /\ LacksInSomeGroup(last'.actor, masters[last'.arg].access_config,
                           MODULE_BULLETINS_COMPOSER, ACTION_UPDATE))
      => /\ last'.status # "ok"
         /\ masters' = masters
         /\ versions' = versions
         /\ (masters[last'.arg].access_config.allowed_groups \subseteq Groups
               => last'.status = "forbidden")
    ]_vars

\* An update of a {g1, g2} resource was just refused to an actor who may update
\* in one of the two groups only.
C4_Witness ==
  /\ last.op = "update_bulletin"
  /\ last.arg \in DOMAIN masters
  /\ masters[last.arg].access_config.access_type = "restricted"
  /\ masters[last.arg].access_config.allowed_groups = {"g1", "g2"}
  /\ ~HoldsGlobalAdminRole(last.actor)
  /\ \E g \in {"g1", "g2"} :
       HoldsPermission(last.actor, g, MODULE_BULLETINS_COMPOSER, ACTION_UPDATE)
  /\ \E g \in {"g1", "g2"} :
       ~HoldsPermission(last.actor, g, MODULE_BULLETINS_COMPOSER, ACTION_UPDATE)
  /\ last.status = "forbidden"

\* The filters the routes pass: none, or {"id": m}.
Filters == {None} \cup MasterIds

\* Master m is restricted and the user is a member of none of its allowed groups.
OutsideAllowedGroups(u, m) ==
  /\ masters[m].access_config.access_type = "restricted"
  /\ masters[m].access_config.allowed_groups \cap MemberGroups(u) = {}

\* C5 (as stated): for every actor, get_accessible_resources never returns a
\* restricted resource to an actor that is a member of none of its allowed groups.
C5_NeverReturnedToOutsiders ==
  \A u \in Actors, m \in DOMAIN masters, f \in Filters :
    OutsideAllowedGroups(u, m) => m \notin Range(get_accessible_resources(u, f))

\* C5 (amended): for every actor that is not a global admin,
\* get_accessible_resources never returns a restricted resource to an actor that
\* is a member of none of its allowed groups.
C5_NeverReturnedToNonAdminOutsiders ==
  \A u \in Actors, m \in DOMAIN masters, f \in Filters :
    (OutsideAllowedGroups(u, m) /\ ~HoldsGlobalAdminRole(u))
      => m \notin Range(get_accessible_resources(u, f))

\* A listing just answered to a non-admin left out a stored restricted master
\* none of whose groups the actor is in.
C5_Witness ==
  /\ last.op = "get_all_bulletins"
  /\ ~HoldsGlobalAdminRole(last.actor)
  /\ \E m \in DOMAIN masters :
       OutsideAllowedGroups(last.actor, m) /\ m \notin Range(last.out)
  /\ \E m \in DOMAIN masters : m \in Range(last.out)

\* What the resolver is to return for (u, f).
ExpectedAccessible(u, f) ==
  IF HoldsGlobalAdminRole(u)
  THEN {m \in DOMAIN masters : f = None \/ m = f}
  ELSE {m \in DOMAIN masters :
          /\ f = None \/ m = f
          /\ \/ masters[m].access_config.access_type = "public"
             \/ /\ masters[m].access_config.access_type = "restricted"
                /\ masters[m].access_config.allowed_groups \cap MemberGroups(u) # {}}

\* C6: get_accessible_resources returns exactly, and each once: for a global
\* admin every resource matching the filter; for any other actor the public
\* ones and the restricted ones sharing a group with the actor's groups.
C6_ExactlyTheAccessibleOnce ==
  \A u \in Actors, f \in Filters :
    LET res == get_accessible_resources(u, f) IN
    /\ Range(res) = ExpectedAccessible(u, f)
    /\ Len(res) = Cardinality(ExpectedAccessible(u, f))

\* A listing just answered to a non-admin holds a public master and a master
\* restricted to two groups of which the actor is in one only, whose role there
\* grants nothing.
C6_Witness ==
  /\ last.op = "get_all_bulletins"
  /\ ~HoldsGlobalAdminRole(last.actor)
  /\ Len(last.out) = 2
  /\ \E m \in Range(last.out) : masters[m].access_config.access_type = "public"
  /\ \E m \in Range(last.out) :
       /\ masters[m].access_config.allowed_groups = {"g1", "g2"}
       /\ Cardinality(MemberGroups(last.actor) \cap {"g1", "g2"}) = 1
       /\ \A g \in MemberGroups(last.actor) :
            ~HoldsPermission(last.actor, g, MODULE_BULLETINS_COMPOSER, ACTION_READ)

\* The masters a read response discloses: those it lists, or the master of the
\* version it returns.
Disclosed ==
  IF last.op \in {"get_all_bulletins", "get_bulletin_by_id",
                  "get_all_bulletin_slug_names"}
  THEN Range(last.out)
  ELSE IF last.op = "get_version_by_id"
  THEN {versions[v].bulletin_master_id : v \in Range(last.out)}
  ELSE {}

\* C7: no read returns a version, or any field of a master, of a restricted
\* master to a non-global-admin actor who is in none of its allowed groups.
C7_ReadsGoThroughVisibility ==
  \A m \in Disclosed :
    ~(OutsideAllowedGroups(last.actor, m) /\ ~HoldsGlobalAdminRole(last.actor))

\* The versions stored for master m.
VersionsOf(m) == {v \in DOMAIN versions : versions[v].bulletin_master_id = m}

\* The greatest element of a set of ids, None when it is empty (ids are handed
\* out in increasing order, so this is the one created last).
Latest(S) == IF S = {} THEN None ELSE CHOOSE v \in S : \A w \in S : w <= v

\* The versions of m are numbered 1, 2, ... in creation order, each linked to
\* the one before it (the first to none), and m points at the last of them.
ChainInOrder(m) ==
  /\ \A v \in VersionsOf(m) :
       /\ versions[v].version_num = Cardinality({w \in VersionsOf(m) : w <= v})
       /\ versions[v].previous_version_id = Latest({w \in VersionsOf(m) : w < v})
  /\ masters[m].current_version_id = Latest(VersionsOf(m))

\* C8: from a master with no version, the k-th of n sequential createVersion
\* calls stores version_num = k and previous_version_id = the (k-1)-th id (none
\* for k = 1), and leaves the master pointing at the new version.  Inductively:
\* a successful createVersion on a master whose chain is in order leaves the
\* chain in order, one version longer.
C8_SequentialVersionsChain ==
  [][ \A m \in DOMAIN masters :
        (/\ ChainInOrder(m)
         /\ last'.op = "create_bulletin_version"
         /\ last'.status = "ok"
         /\ last'.arg.bulletin_master_id = m)
        => /\ ChainInOrder(m)'
           /\ VersionsOf(m)' = VersionsOf(m) \cup {last'.out}
           /\ last'.out \notin VersionsOf(m)
    ]_vars

\* C9: when the master has no current version, createVersion stores
\* version_num = 1 and previous_version_id = none, whatever the payload carries.
C9_FirstVersionIgnoresPayload ==
  [][ (/\ last'.op = "create_bulletin_version"
       /\ last'.status = "ok"
       /\ masters[last'.arg.bulletin_master_id].current_version_id = None)
      => /\ versions'[last'.out].version_num = 1
         /\ versions'[last'.out].previous_version_id = None
    ]_vars

\* C10: a stored version's version_num, previous_version_id and master id are
\* never changed by a later operation; later operations only add versions.
C10_VersionsImmutable ==
  [][ \A v \in DOMAIN versions :
        /\ v \in DOMAIN versions'
        /\ versions'[v].version_num = versions[v].version_num
        /\ versions'[v].previous_version_id = versions[v].previous_version_id
        /\ versions'[v].bulletin_master_id = versions[v].bulletin_master_id
    ]_vars

\* A second version was just added to a master, or a version cloned, while an
\* earlier version stays stored; and a master update has moved a pointer.
C10_Witness ==
  /\ last.op \in {"create_bulletin_version", "clone_template"}
  /\ last.status = "ok"
  /\ Cardinality(DOMAIN versions) = 2
  /\ \E v \in DOMAIN versions : versions[v].version_num = 2
  /\ \E m \in DOMAIN masters : masters[m].current_version_id = DanglingVersion

\* ---------------------------------------------------------------------------
\* C11: a master's version state is one-way: once current_version_id of a
\* master is not null, no step (createVersion, master update with any
\* payload, clone) makes it null again.
C11_VersionStateOneWay ==
  [][\A m \in DOMAIN masters :
       masters[m].current_version_id # None
         => masters'[m].current_version_id # None]_vars

\* ---------------------------------------------------------------------------
\* C12: when the createVersion calls on a master are serialized by a
\* per-master mutual exclusion over the whole read-pointer / insert-version /
\* update-pointer sequence, no two versions of that master have the same
\* version_num.
C12_NoDuplicateVersionNum ==
  \A v1 \in DOMAIN versions, v2 \in DOMAIN versions :
    (v1 # v2 /\ versions[v1].bulletin_master_id = versions[v2].bulletin_master_id)
      => versions[v1].version_num # versions[v2].version_num

\* ---------------------------------------------------------------------------
\* C13: without per-master exclusion, two createVersion calls on the same
\* master that both read the same current_version_id before either updates
\* the pointer both store a version with the same version_num and the same
\* previous_version_id; once both have updated the pointer it is one of the
\* two new versions, and the other one is still stored but not reachable from
\* current_version_id through previous_version_id links.

\* The call of caller c has stored its version.
HasStored(c) == calls[c].pc \in {"update", "done"}

\* Two calls on one master that read the same pointer.  The pointer of a
\* master takes a fresh value at every update, so calls that read the same
\* value both read before either of them updated.
RacePair(c, d) ==
  /\ c # d
  /\ HasStored(c) /\ HasStored(d)
  /\ calls[c].master = calls[d].master
  /\ calls[c].read = calls[d].read

RECURSIVE ReachableFrom(_, _)
\* The versions on the previous_version_id chain that starts at version v,
\* following at most n links.
ReachableFrom(v, n) ==
  IF v = None \/ v \notin DOMAIN versions \/ n = 0 THEN {}
  ELSE {v} \cup ReachableFrom(versions[v].previous_version_id, n - 1)

C13_RaceDuplicatesAndLosesOne ==
  \A c \in Callers, d \in Callers :
    RacePair(c, d) =>
      LET vc == calls[c].vid
          vd == calls[d].vid
          cur == masters[calls[c].master].current_version_id
      IN
      /\ versions[vc].version_num = versions[vd].version_num
      /\ versions[vc].previous_version_id = versions[vd].previous_version_id
      /\ (calls[c].pc = "done" /\ calls[d].pc = "done") =>
           /\ cur \in {vc, vd}
           /\ \A lost \in {vc, vd} \ {cur} :
                /\ lost \in DOMAIN versions
                /\ lost \notin ReachableFrom(cur, MaxVersions)

\* ---------------------------------------------------------------------------
\* C14: cloneMaster of a master M produces a new master M' with a fresh id;
\* if M has a current version V, exactly one new version V' is created, with
\* master_id = M', previous_version_id = none and V's version_num, and
\* M'.current_version_id = V'; if M has no current version, no version is
\* created and M' has none.

\* The step is a successful clone.
ClonedOk == last'.op = "clone_template" /\ last'.status = "ok"

\* What the claim says of the versions, for source master id and new master id.
CloneOfVersion(id, new) ==
  LET V == masters[id].current_version_id IN
  IF V = None
  THEN /\ versions' = versions
       /\ masters'[new].current_version_id = None
  ELSE \E V2 \in VersionIds :
         /\ DOMAIN versions' = DOMAIN versions \cup {V2}
         /\ V2 \notin DOMAIN versions
         /\ \A v \in DOMAIN versions : versions'[v] = versions[v]
         /\ versions'[V2].bulletin_master_id = new
         /\ versions'[V2].previous_version_id = None
         /\ versions'[V2].version_num = versions[V].version_num
         /\ masters'[new].current_version_id = V2

\* What the claim says of the master, but for the audit log.
CloneOfMaster(id, override, new) ==
  /\ new \notin DOMAIN masters
  /\ DOMAIN masters' = DOMAIN masters \cup {new}
  /\ \A m \in DOMAIN masters : masters'[m] = masters[m]
  /\ masters'[new].access_config = masters[id].access_config
  /\ masters'[new].bulletin_name =
       IF override # NoName THEN override
       ELSE masters[id].bulletin_name \o ClonSuffix

CloneWithoutPermission ==
  /\ last'.op = "clone_template"
  /\ last'.arg[1] \in DOMAIN masters
  /\ LacksInSomeGroup(last'.actor, masters[last'.arg[1]].access_config,
                      MODULE_TEMPLATE_MANAGEMENT, ACTION_CREATE)

\* The allowed groups of the master the step is about are all stored.
CloneGroupsStored ==
  masters[last'.arg[1]].access_config.allowed_groups \subseteq Groups

\* C15 as stated: the denial is Forbidden.
C15_CloneDeniedForbidden ==
  [][CloneWithoutPermission =>
       /\ last'.status # "ok"
       /\ masters' = masters
       /\ versions' = versions
       /\ CloneGroupsStored => last'.status = "forbidden"
    ]_vars

\* ---------------------------------------------------------------------------
\* C16: no operation performed by an actor who is not a global admin makes
\* any actor newly hold a global-admin role; add_user_to_group and
\* update_user_role_in_group called with a global-admin role by such an actor
\* are rejected with Forbidden and leave users_access unchanged, also when the
\* actor is a group admin or holds access_control permission in the group.

\* The step is an add or update-role request that names a global-admin role.
AssignsGlobalAdminRole ==
  /\ last'.op \in {"add_user_to_group", "update_user_role_in_group"}
  /\ Roles[last'.arg[3]].role_name \in GLOBAL_ADMIN_ROLE_NAMES

GroupRequest ==
  /\ last'.op \in {"add_user_to_group", "remove_user_from_group",
                   "update_user_role_in_group"}
  /\ last'.arg[1] \in Groups

\* The access_control action each operation asks for.
MatchingAction(op) ==
  IF op = "add_user_to_group" THEN ACTION_CREATE
  ELSE IF op = "remove_user_from_group" THEN ACTION_DELETE
  ELSE ACTION_UPDATE

\* The actor's role name in group g is 'admin'.
IsAdminOf(u, g) ==
  \E ua \in Range(users_access[g]) :
    ua.user_id = u /\ Roles[ua.role_id].role_name = "admin"

\* The answer of a request that passed authorization: an add succeeds unless
\* the user is already a member, a remove or update-role unless the user is
\* not; a global-admin role requested by a non-global-admin is C16's refusal.
AnswerWhenAuthorized ==
  IF last'.op # "remove_user_from_group" /\ AssignsGlobalAdminRole
       /\ ~HoldsGlobalAdminRole(last'.actor)
  THEN "forbidden"
  ELSE IF last'.op = "add_user_to_group"
  THEN IF HasAccess(last'.arg[2], last'.arg[1]) THEN "bad_request" ELSE "ok"
  ELSE IF HasAccess(last'.arg[2], last'.arg[1]) THEN "ok" ELSE "not_found"

C17_GroupAdminMayAdministerOwnGroupOnly ==
  [][GroupRequest =>
       /\ IsAdminOf(last'.actor, last'.arg[1]) =>
            last'.status = AnswerWhenAuthorized
       /\ (/\ ~HoldsGlobalAdminRole(last'.actor)
           /\ ~IsAdminOf(last'.actor, last'.arg[1])
           /\ ~HoldsPermission(last'.actor, last'.arg[1], MODULE_ACCESS_CONTROL,
                               MatchingAction(last'.op)))
            => /\ last'.status = "forbidden"
               /\ users_access' = users_access
               /\ group_log' = group_log
    ]_vars

\* u3, admin of g2 through a role without permissions, has changed g2 and was
\* then refused on g1, where u3 has no role.
C17_Witness ==
  /\ last.op \in {"add_user_to_group", "remove_user_from_group",
                  "update_user_role_in_group"}
  /\ last.actor = "u3"
  /\ last.arg[1] = "g1"
  /\ last.status = "forbidden"
  /\ group_log["g2"] = "u3"
  /\ IsAdminOf("u3", "g2")
  /\ ~HasAccess("u3", "g1")
  /\ ~HoldsPermission("u3", "g2", MODULE_ACCESS_CONTROL, ACTION_CREATE)

\* ---------------------------------------------------------------------------
\* C18: add_user_to_group for a user that already appears in the group's
\* users_access fails with Conflict (HTTP 409) and leaves the group's
\* users_access unchanged, whatever role is requested.
C18_DuplicateAddIsConflict ==
  [][(/\ last'.op = "add_user_to_group"
      /\ last'.arg[1] \in Groups
      /\ HasAccess(last'.arg[2], last'.arg[1])
      /\ GroupAdminGate(last'.actor, last'.arg[1], ACTION_CREATE) = "ok")
       => /\ last'.status = "conflict"
          /\ users_access' = users_access
    ]_vars

\* ---------------------------------------------------------------------------
\* C19: remove_user_from_group for a user that does not appear in the group's
\* users_access fails with NotFound and leaves the group, members and audit
\* log, unchanged.
C19_RemoveOfNonMemberIsNotFound ==
  [][(/\ last'.op = "remove_user_from_group"
      /\ last'.arg[1] \in Groups
      /\ ~HasAccess(last'.arg[2], last'.arg[1]))
       => /\ users_access' = users_access
          /\ group_log' = group_log
          /\ last'.status # "ok"
          /\ GroupAdminGate(last'.actor, last'.arg[1], ACTION_DELETE) = "ok"
               => last'.status = "not_found"
    ]_vars

\* u3, admin of g2, has changed g2 and was then answered NotFound when removing
\* from g2 a user who is not a member; the log of g2 still names u3's change.
C19_Witness ==
  /\ last.op = "remove_user_from_group"
  /\ last.actor = "u3"
  /\ last.arg[1] = "g2"
  /\ last.status = "not_found"
  /\ ~HasAccess(last.arg[2], "g2")
  /\ group_log["g2"] = "u3"
  /\ groupOps = 1

\* ---------------------------------------------------------------------------
\* C20: every operation invoked by an actor whose is_active flag is false is
\* denied and changes no persisted state, for every resource kind and every
\* group operation.
C20_InactiveDeniedEverywhere ==
  [][~is_active[last'.actor] =>
       /\ last'.status = "forbidden"
       /\ UNCHANGED <<users_access, masters, versions, group_log, is_active>>
    ]_vars

\* u2 created a master while active, was deactivated, and was then refused
\* the creation of a version of it.
C20_Witness ==
  /\ ~is_active["u2"]
  /\ last.actor = "u2"
  /\ last.op = "create_bulletin_version"
  /\ last.status = "forbidden"
  /\ \E m \in DOMAIN masters : masters[m].log = LogCreate("u2")
  /\ versions = << >>

\* ---------------------------------------------------------------------------
\* C21: for an actor that is not a global admin, user_has_permission(actor,
\* G, module, action) answers deny whenever the actor has no entry in G's
\* users_access, or the actor's role in G has no entry for the module, or that
\* entry has no entry for the action; it answers allow only when the role's
\* permission for that module and action is set.

\* The permissions of the role that user u holds in stored group g.
PermissionsIn(u, g) ==
  Roles[(CHOOSE ua \in Range(users_access[g]) : ua.user_id = u).role_id].permissions

\* The role of u in g mentions module and action.
Mentions(u, g, module, action) ==
  /\ HasAccess(u, g)
  /\ module \in DOMAIN PermissionsIn(u, g)
  /\ action \in DOMAIN PermissionsIn(u, g)[module]

C21_FailsClosed ==
  \A u \in Actors, g \in Groups, m \in Modules, act \in Actions :
    ~HoldsGlobalAdminRole(u) =>
      /\ ~Mentions(u, g, m, act) => user_has_permission(u, g, m, act) = "deny"
      /\ user_has_permission(u, g, m, act) = "allow"
           => (Mentions(u, g, m, act) /\ PermissionsIn(u, g)[m][act])
      /\ user_has_permission(u, g, m, act) \in {"allow", "deny"}

\* The three ways of not being mentioned are present at once: a user with no
\* entry in g1, a member of g2 whose role has no entry for the module, a member
\* of g1 whose role has an entry for the module but none for the action; and
\* the last check answered deny on a permission that is stored as false.
C21_Witness ==
  /\ last.op = "user_has_permission"
  /\ last.status = "deny"
  /\ last.arg = <<"g1", MODULE_ACCESS_CONTROL, ACTION_DELETE>>
  /\ Mentions(last.actor, "g1", MODULE_ACCESS_CONTROL, ACTION_DELETE)
  /\ \E u \in Actors : ~HoldsGlobalAdminRole(u) /\ ~HasAccess(u, "g1")
  /\ \E u \in Actors :
       /\ ~HoldsGlobalAdminRole(u) /\ HasAccess(u, "g2")
       /\ MODULE_BULLETINS_COMPOSER \notin DOMAIN PermissionsIn(u, "g2")
  /\ \E u \in Actors :
       /\ ~HoldsGlobalAdminRole(u) /\ HasAccess(u, "g1")
       /\ MODULE_BULLETINS_COMPOSER \in DOMAIN PermissionsIn(u, "g1")
       /\ ACTION_DELETE \notin DOMAIN PermissionsIn(u, "g1")[MODULE_BULLETINS_COMPOSER]

\* ---------------------------------------------------------------------------
\* C22: every operation that references a master, version or group id that is
\* well-formed but absent from storage (master update, createVersion, version
\* read, clone, add / remove / update-role on a group) returns NotFound and
\* changes no persisted state.

\* The request of the step names an id that is not stored.
ReferencesAbsentId ==
  \/ last'.op = "update_bulletin" /\ last'.arg \notin DOMAIN masters
  \/ last'.op = "create_bulletin_version"
       /\ last'.arg.bulletin_master_id \notin DOMAIN masters
  \/ last'.op = "get_version_by_id" /\ last'.arg \notin DOMAIN versions
  \/ last'.op = "clone_template" /\ last'.arg[1] \notin DOMAIN masters
  \/ last'.op \in {"add_user_to_group", "remove_user_from_group",
                   "update_user_role_in_group"}
       /\ last'.arg[1] \notin Groups

C22_AbsentIdIsNotFound ==
  [][ReferencesAbsentId =>
       /\ last'.status = "not_found"
       /\ UNCHANGED <<users_access, masters, versions, group_log, is_active>>
    ]_vars

\* ---------------------------------------------------------------------------
\* C23: every lifecycle operation given a malformed master or version id
\* (master update, version read, master read, current-version lookup) answers
\* InvalidArgument (400) and changes no state.

\* The ids a route can be called with: the well-formed ones and a malformed one.
RouteIds == MasterIds \cup {MalformedId}

NextIds ==
  \/ \E cfg \in UpdateAccessConfigs : create_bulletin("u1", cfg)
  \/ \E a \in {"u1", "u2"}, p \in VersionPayloads : create_bulletin_version(a, p)
  \/ \E a \in {"u1", "u2"}, id \in RouteIds, p \in PointerPayloads :
       update_bulletin(a, id, p)
  \/ \E a \in {"u1", "u2"}, id \in RouteIds : get_bulletin_by_id(a, id)
  \/ \E a \in {"u1", "u2"}, id \in RouteIds : get_current_version(a, id)
  \/ \E a \in {"u1", "u2"}, v \in VersionIds \cup {MalformedId} :
       get_version_by_id(a, v)

SpecIds == Init /\ [][NextIds]_vars

\* The request of the step carries the malformed id.
MalformedCall ==
  /\ last'.op \in {"update_bulletin", "get_bulletin_by_id",
                   "get_current_version", "get_version_by_id"}
  /\ last'.arg = MalformedId

C23_MalformedIdIsBadRequest ==
  [][MalformedCall =>
       /\ last'.status = "bad_request"
       /\ UNCHANGED <<users_access, masters, versions, group_log, is_active>>
    ]_vars

\* ---------------------------------------------------------------------------
\* C24: createVersion on a master whose current_version_id references a
\* version missing from storage fails with an error: no version is stored (no
\* fallback to version_num = 1) and current_version_id is unchanged.

\* The step is a createVersion on a stored master whose pointer dangles.
OnDanglingPointer ==
  /\ last'.op = "create_bulletin_version"
  /\ last'.arg.bulletin_master_id \in DOMAIN masters
  /\ masters[last'.arg.bulletin_master_id].current_version_id # None
  /\ masters[last'.arg.bulletin_master_id].current_version_id \notin DOMAIN versions

C24_DanglingPointerFails ==
  [][OnDanglingPointer =>
       /\ last'.status \notin {"ok"}
       /\ versions' = versions
       /\ masters' = masters
    ]_vars

\* A createVersion was just refused with 404 to an actor who sees the master,
\* whose pointer references no stored version.
C24_Witness ==
  /\ last.op = "create_bulletin_version"
  /\ last.status = "not_found"
  /\ last.arg.bulletin_master_id \in DOMAIN masters
  /\ get_accessible_resources(last.actor, last.arg.bulletin_master_id) # << >>
  /\ masters[last.arg.bulletin_master_id].current_version_id = DanglingVersion
  /\ DanglingVersion \notin DOMAIN versions

\* ---------------------------------------------------------------------------
\* C25: when createVersion has stored the new version and the update of the
\* master's current_version_id then fails, the version stays stored, with its
\* bulletin_master_id naming the master, and current_version_id keeps its
\* value: nothing is deleted and nothing else is written.

\* A failed pointer update that deletes the version stored just before.
create_bulletin_version_update_fails_compensating(c) ==
  /\ calls[c].pc = "update"
  /\ versions' = [v \in DOMAIN versions \ {calls[c].vid} |-> versions[v]]
  /\ last' = [op |-> "create_bulletin_version", actor |-> calls[c].actor,
              status |-> "internal_error", arg |-> calls[c].version_data,
              out |-> calls[c].vid]
  /\ calls' = [calls EXCEPT ![c].pc = "done"]
  /\ UNCHANGED <<users_access, masters, groupOps, group_log, is_active>>

\* Lines 312-313 when the storage fails under BaseService.update (modify
\* raises): "except Exception" answers 500; the handler has no try around the
\* call and writes nothing more.
create_bulletin_version_update_fails(c) ==
  /\ calls[c].pc = "update"
  /\ last' = [op |-> "create_bulletin_version", actor |-> calls[c].actor,
              status |-> "internal_error", arg |-> calls[c].version_data,
              out |-> calls[c].vid]
  /\ calls' = [calls EXCEPT ![c].pc = "done"]
  /\ UNCHANGED <<users_access, masters, versions, groupOps, group_log, is_active>>

NextFail ==
  \/ \E cfg \in AccessConfigs : create_bulletin("u1", cfg)
  \/ \E c \in Callers, a \in Actors, p \in VersionPayloads :
       create_bulletin_version_read(c, a, p)
  \/ \E c \in Callers : create_bulletin_version_create(c)
  \/ \E c \in Callers : create_bulletin_version_update(c)
  \/ \E c \in Callers : create_bulletin_version_update_fails(c)

SpecFail == Init /\ [][NextFail]_vars

\* Call c ends in this step with a failed pointer update.
PointerUpdateFails(c) ==
  /\ calls[c].pc = "update"
  /\ calls'[c].pc = "done"
  /\ last'.status # "ok"

C25_VersionStaysWhenPointerUpdateFails ==
  [][\A c \in Callers :
       PointerUpdateFails(c) =>
         /\ calls[c].vid \in DOMAIN versions'
         /\ versions'[calls[c].vid].bulletin_master_id = calls[c].master
         /\ versions' = versions
         /\ masters' = masters
    ]_vars

\* A createVersion has just ended with a failed pointer update on a master
\* that had a current version: the new version is stored for that master and
\* the master still points at the earlier one.
C25_Witness ==
  /\ last.op = "create_bulletin_version"
  /\ last.status = "internal_error"
  /\ last.out \in DOMAIN versions
  /\ versions[last.out].bulletin_master_id \in DOMAIN masters
  /\ masters[versions[last.out].bulletin_master_id].current_version_id
       = versions[last.out].previous_version_id
  /\ versions[last.out].previous_version_id \in DOMAIN versions

\* ---------------------------------------------------------------------------
\* C26: after any sequence of master creation, createVersion and cloneMaster,
\* for every master the version_num of each of its versions is a positive
\* integer, the version with previous_version_id = none has version_num = 1,
\* and version_num increases with creation order within the master.

NextLife ==
  \/ \E cfg \in AccessConfigs : create_bulletin("u1", cfg)
  \/ \E a \in Actors, p \in VersionPayloads : create_bulletin_version(a, p)
  \/ \E a \in Actors, id \in MasterIds, n \in NameOverrides : clone_template(a, id, n)

SpecLife == Init /\ [][NextLife]_vars

\* The version numbers of master m are positive and increase with creation
\* order (ids are handed out in increasing order).
NumbersInOrder(m) ==
  \A v \in VersionsOf(m) :
    /\ versions[v].version_num \in Nat \ {0}
    /\ \A w \in VersionsOf(m) :
         v < w => versions[v].version_num < versions[w].version_num

\* C26 as stated.
C26_NumbersStartAtOne ==
  \A m \in DOMAIN masters :
    /\ NumbersInOrder(m)
    /\ \A v \in VersionsOf(m) :
         versions[v].previous_version_id = None => versions[v].version_num = 1

\* C26 (amended): the numbers are positive and increase with creation order
\* within the master; a version with previous_version_id = none is the first
\* of its master; the version that createVersion stores on a master with no
\* current version has version_num = 1, and the one a clone stores has the
\* version_num of the source's current version.
C26_NumbersInOrderCloneCarries ==
  [][ /\ \A m \in DOMAIN masters' :
           /\ NumbersInOrder(m)'
           /\ \A v \in VersionsOf(m)' :
                versions'[v].previous_version_id = None
                  => \A w \in VersionsOf(m)' : v <= w
      /\ (/\ last'.op = "create_bulletin_version"
          /\ last'.status = "ok"
          /\ masters[last'.arg.bulletin_master_id].current_version_id = None)
           => versions'[last'.out].version_num = 1
      /\ (ClonedOk /\ masters[last'.arg[1]].current_version_id # None)
           => LET V2 == masters'[last'.out].current_version_id IN
              /\ versions'[V2].previous_version_id = None
              /\ versions'[V2].version_num =
                   versions[masters[last'.arg[1]].current_version_id].version_num
    ]_vars

\* A master with versions 1 and 2 has just been cloned: the copy's only
\* version has previous_version_id = none and version_num = 2.
C26_Witness ==
  /\ last.op = "clone_template"
  /\ last.status = "ok"
  /\ Cardinality(VersionsOf(last.arg[1])) = 2
  /\ VersionsOf(last.out) = {masters[last.out].current_version_id}
  /\ versions[masters[last.out].current_version_id].previous_version_id = None
  /\ versions[masters[last.out].current_version_id].version_num = 2

\* ---------------------------------------------------------------------------
\* C27: in every state reachable by master creation, master update (any
\* payload), createVersion and cloneMaster, each master's non-null
\* current_version_id references a stored version of that master.
C27_PointerReferencesOwnVersion ==
  \A m \in DOMAIN masters :
    masters[m].current_version_id # None
      => /\ masters[m].current_version_id \in DOMAIN versions
         /\ versions[masters[m].current_version_id].bulletin_master_id = m

\* ---------------------------------------------------------------------------
\* C28: writes to a resource whose stored access_type is public are not
\* permission-gated: an update of a public resource (also one that changes
\* its access_config) and a createVersion on a public master succeed for
\* every active actor, whatever its roles and group memberships.

\* The step is a write request on a stored master whose access_type is public.
WriteOnPublic ==
  \/ /\ last'.op = "update_bulletin"
     /\ last'.arg \in DOMAIN masters
     /\ masters[last'.arg].access_config.access_type = "public"
  \/ /\ last'.op = "create_bulletin_version"
     /\ last'.arg.bulletin_master_id \in DOMAIN masters
     /\ masters[last'.arg.bulletin_master_id].access_config.access_type = "public"

C28_PublicWritesSucceed ==
  [][WriteOnPublic => last'.status = "ok"]_vars

\* ---------------------------------------------------------------------------
\* C29: update authorizes against the access_config stored before the update
\* and never against the one in the payload: an actor with update permission
\* in every stored allowed group can replace allowed_groups with groups in
\* which the actor has no permission or membership, after which the same
\* actor's next update of that resource is denied.

\* Masters are created by u1 with allowed_groups that contain g1; every
\* update is u2's, who is editor in g1 and has no entry in g2.
NextStored ==
  \/ \E cfg \in AccessConfigs : create_bulletin("u1", cfg)
  \/ \E id \in MasterIds, p \in UpdatePayloads : update_bulletin("u2", id, p)
  \/ \E p \in VersionPayloads : create_bulletin_version("u2", p)

SpecStored == Init /\ [][NextStored]_vars

C29_UpdateGateReadsStoredConfig ==
  [][(last'.op = "update_bulletin" /\ last'.arg \in DOMAIN masters) =>
       IF LacksInSomeGroup(last'.actor, masters[last'.arg].access_config,
                           MODULE_BULLETINS_COMPOSER, ACTION_UPDATE)
       THEN /\ last'.status # "ok"
            /\ masters' = masters
       ELSE /\ last'.status = "ok"
            /\ \E p \in UpdatePayloads :
                 masters' = [masters EXCEPT ![last'.arg] = Modify(@, p)]
    ]_vars

\* u2 has just been refused an update of a master that is now restricted to
\* g2 alone, where u2 has no entry: masters are created with g1 among their
\* groups and only u2 updates, so it was u2 who replaced the allowed groups.
C29_Witness ==
  /\ last.op = "update_bulletin"
  /\ last.actor = "u2"
  /\ last.status = "forbidden"
  /\ last.arg \in DOMAIN masters
  /\ masters[last.arg].access_config.access_type = "restricted"
  /\ masters[last.arg].access_config.allowed_groups = {"g2"}
  /\ ~HasAccess("u2", "g2")
  /\ HoldsPermission("u2", "g1", MODULE_BULLETINS_COMPOSER, ACTION_UPDATE)

\* ---------------------------------------------------------------------------
\* C30: under every interleaving of concurrent add_user_to_group,
\* remove_user_from_group and update_user_role_in_group calls on the same
\* group, an actor id appears at most once in the group's users_access and no
\* completed add or role change of another member is lost.

\* A call of a group operation between its load and its save: the Group
\* document it holds in memory, already modified.
GroupCall(op, updater, group_id, arg, in_memory) ==
  [pc |-> "save", op |-> op, actor |-> updater, group_id |-> group_id,
   arg |-> arg, users_access |-> in_memory]

\* The calls that hold a loaded group.
Saving == {d \in Callers : calls[d].pc = "save"}

\* add_user_to_group up to group.users_access.append (lines 113-135): the
\* authorization, Group.objects.get, the checks and the change in memory.
add_user_to_group_load(c, updater, group_id, user_id, role_id) ==
  /\ get_current_user(updater)
  /\ calls[c].pc = "idle"
  /\ groupOps + Cardinality(Saving) < MaxGroupOps
  /\ \E st \in {AddStatus(updater, group_id, user_id, role_id)} :
       IF st = "ok"
       THEN /\ calls' = [calls EXCEPT ![c] =
                 GroupCall("add_user_to_group", updater, group_id,
                           <<group_id, user_id, role_id>>,
                           Append(users_access[group_id],
                                  [user_id |-> user_id, role_id |-> role_id]))]
            /\ UNCHANGED last
       ELSE /\ last' = [op |-> "add_user_to_group", actor |-> updater,
                        status |-> st, arg |-> <<group_id, user_id, role_id>>,
                        out |-> None]
            /\ UNCHANGED calls
  /\ UNCHANGED <<users_access, masters, versions, groupOps, group_log, is_active>>

\* remove_user_from_group up to the filtered list (lines 144-153).
remove_user_from_group_load(c, updater, group_id, user_id) ==
  /\ get_current_user(updater)
  /\ calls[c].pc = "idle"
  /\ groupOps + Cardinality(Saving) < MaxGroupOps
  /\ \E st \in {RemoveStatus(updater, group_id, user_id)} :
       IF st = "ok"
       THEN /\ calls' = [calls EXCEPT ![c] =
                 GroupCall("remove_user_from_group", updater, group_id,
                           <<group_id, user_id>>,
                           SelectSeq(users_access[group_id],
                                     LAMBDA ua : ua.user_id # user_id))]
            /\ UNCHANGED last
       ELSE /\ last' = [op |-> "remove_user_from_group", actor |-> updater,
                        status |-> st, arg |-> <<group_id, user_id>>,
                        out |-> None]
            /\ UNCHANGED calls
  /\ UNCHANGED <<users_access, masters, versions, groupOps, group_log, is_active>>

\* update_user_role_in_group up to the role assignment (lines 163-187).
update_user_role_in_group_load(c, updater, group_id, user_id, new_role_id) ==
  /\ get_current_user(updater)
  /\ calls[c].pc = "idle"
  /\ groupOps + Cardinality(Saving) < MaxGroupOps
  /\ \E st \in {UpdateRoleStatus(updater, group_id, user_id, new_role_id)} :
       IF st = "ok"
       THEN /\ calls' = [calls EXCEPT ![c] =
                 GroupCall("update_user_role_in_group", updater, group_id,
                           <<group_id, user_id, new_role_id>>,
                           [i \in 1..Len(users_access[group_id]) |->
                              IF users_access[group_id][i].user_id = user_id
                              THEN [users_access[group_id][i]
                                      EXCEPT !.role_id = new_role_id]
                              ELSE users_access[group_id][i]])]
            /\ UNCHANGED last
       ELSE /\ last' = [op |-> "update_user_role_in_group", actor |-> updater,
                        status |-> st, arg |-> <<group_id, user_id, new_role_id>>,
                        out |-> None]
            /\ UNCHANGED calls
  /\ UNCHANGED <<users_access, masters, versions, groupOps, group_log, is_active>>

\* _update_group_log and group.save(): the users_access the call holds in
\* memory replaces the stored one, and the response is sent.
group_save(c) ==
  /\ calls[c].pc = "save"
  /\ users_access' = [users_access EXCEPT ![calls[c].group_id] =
                        calls[c].users_access]
  /\ group_log' = [group_log EXCEPT ![calls[c].group_id] = calls[c].actor]
  /\ groupOps' = groupOps + 1
  /\ last' = [op |-> calls[c].op, actor |-> calls[c].actor, status |-> "ok",
              arg |-> calls[c].arg, out |-> None]
  /\ calls' = [calls EXCEPT ![c] = Idle]
  /\ UNCHANGED <<masters, versions, is_active>>

\* Calls on g2 by u1 (superadmin), interleaved freely: the services take no
\* lock and save() carries no version check.
NextGroupRace ==
  \/ \E c \in Callers, u \in Actors :
       add_user_to_group_load(c, "u1", "g2", u, "r_editor")
  \/ \E c \in Callers, u \in Actors :
       remove_user_from_group_load(c, "u1", "g2", u)
  \/ \E c \in Callers, u \in Actors :
       update_user_role_in_group_load(c, "u1", "g2", u, "r_editor")
  \/ \E c \in Callers : group_save(c)

SpecGroupRace == Init /\ [][NextGroupRace]_vars

\* Every user id has at most one entry in each group.
UniqueMembers ==
  \A g \in Groups : \A i, j \in 1..Len(users_access[g]) :
    users_access[g][i].user_id = users_access[g][j].user_id => i = j

\* The save of call c keeps the stored entry of every member other than the
\* one the call is about.
KeepsOtherMembers(c) ==
  \A ua \in Range(users_access[calls[c].group_id]) :
    ua.user_id # calls[c].arg[2]
      => ua \in Range(users_access'[calls[c].group_id])

C30_NoDuplicateNoLostUpdate ==
  [][ /\ UniqueMembers'
      /\ \A c \in Callers :
           (calls[c].pc = "save" /\ calls'[c].pc = "idle") => KeepsOtherMembers(c)
    ]_vars

====
